---------------------------- MODULE Spec2Model ----------------------------
(***************************************************************************)
(* State-machine model of the SubscriptionVault contract                   *)
(* (contracts/subscription_vault/src/lib.rs).                              *)
(*                                                                         *)
(* The contract's instance storage is modelled key by key (DataKey):       *)
(* Token, Admin, NextId, Subscription(id), SubscriberIndex(address).       *)
(* Every contract entry point is one atomic action; an invocation that     *)
(* panics (failed require_auth, arithmetic overflow) is rolled back by the *)
(* host, so it leaves the storage unchanged.                               *)
(***************************************************************************)
EXTENDS Integers, Sequences, FiniteSets, TLC

\* ------------------------------------------------------------------ bounds

\* Creations attempted in one behaviour.
MaxCreates == 3
\* Largest ledger timestamp the clock reaches.
MaxTime == 1
\* Largest small `start` / `limit` argument of a page query (the extreme
\* value U32Max is always added).
MaxStart == 4
MaxLimit == 4
\* Largest page size of the client's cursor loop.
MaxPageSize == 3
\* Largest prepaid balance a usage debit starts from.
MaxBalance == 3

\* The largest value of the unsigned word that holds ids, Vec lengths, `start`
\* and `limit` (u32 in the source, where it is 2^32 - 1).  TLC's integers are
\* 32-bit signed, so the model's word is narrower: 2^29 - 1, which keeps every
\* sum of two words (and of a raised bound) inside TLC's range.  All word
\* arithmetic of the model saturates, wraps or overflows at this value.
U32Max == 536870911

\* ------------------------------------------------------------ input domains

Subscribers == {"A", "B"}
Merchants == {"M", "N"}
\* Every address a query may name; "Z" never creates a subscription.
Addresses == Subscribers \cup Merchants \cup {"Z"}
\* The addresses whose pages are queried: the subscribers and a stranger.
QueryAddresses == Subscribers \cup {"Z"}

\* (merchant, amount, interval_seconds, usage_enabled) of a creation.  The
\* amount is an unvalidated i128 and the interval an unvalidated u64, so a
\* negative amount and a zero interval are inputs the contract accepts.
Plans ==
    { [merchant |-> "M", amount |-> 5, interval_seconds |-> 2, usage_enabled |-> FALSE],
      [merchant |-> "N", amount |-> -1, interval_seconds |-> 0, usage_enabled |-> TRUE] }

\* enum SubscriptionStatus.
Statuses == {"Active", "Paused", "Cancelled", "InsufficientBalance"}

Starts == (0..MaxStart) \cup {U32Max - 1, U32Max}
Limits == (0..MaxLimit) \cup {U32Max}
\* A subscription id that is never allocated within the bounds.
UnknownId == U32Max
QueryIds == (0..MaxCreates) \cup {UnknownId}

\* ------------------------------------------------------------------- state

VARIABLES
    token,            \* DataKey::Token: {} when absent, {address} when set
    admin,            \* DataKey::Admin: {} when absent, {address} when set
    nextId,           \* DataKey::NextId: {} when absent, {n} when set
    subscriptions,    \* DataKey::Subscription(id): partial map id -> record
    subscriberIndex,  \* DataKey::SubscriberIndex(addr): partial map -> Vec<u32>
    now,              \* env.ledger().timestamp()
    ret,              \* the last invocation: entry point, arguments, outcome
    created,          \* history: <<[id, subscription]>> of successful creations
    pc,               \* client cursor loop: "idle", "loop" or "done"
    loopSub,          \* client cursor loop: subscriber being paged
    pageSize,         \* client cursor loop: page_size
    cursor,           \* client cursor loop: cursor
    collected,        \* client cursor loop: ids collected so far
    startIds          \* history: the subscriber's index when the loop started

store == <<token, admin, nextId, subscriptions, subscriberIndex>>
client == <<pc, loopSub, pageSize, cursor, collected, startIds>>
vars == <<token, admin, nextId, subscriptions, subscriberIndex, now, ret,
          created, pc, loopSub, pageSize, cursor, collected, startIds>>

\* ----------------------------------------------------------------- helpers

EmptyMap == [x \in {} |-> 0]

\* Fault variant of MapPut: the write replaces the whole family by the one
\* new entry.
MapPutOnly(m, k, v) == [x \in {k} |-> v]

\* env.storage().instance().set(key, value) on a keyed family.
MapPut(m, k, v) == [x \in (DOMAIN m) \cup {k} |-> IF x = k THEN v ELSE m[x]]

\* Option::unwrap_or on a stored scalar ({} is None, {v} is Some(v)).
unwrap_or(opt, d) == IF opt = {} THEN d ELSE CHOOSE v \in opt : TRUE

Min(a, b) == IF a <= b THEN a ELSE b

\* Fault variant of saturating_add: wrapping_add.
wrapping_add(a, b) == (a + b) % (U32Max + 1)

\* u32::saturating_add.
saturating_add(a, b) == IF a + b > U32Max THEN U32Max ELSE a + b


\* ------------------------------------------------------- internal helpers

\* Fault variant of _next_id: the counter is written back without the
\* increment.
next_id_stale(counter) ==
    LET id == unwrap_or(counter, 0) IN
    { [panicked |-> FALSE, id |-> id, stored |-> {id}] }

\* fn _next_id: reads NextId (0 when absent), stores id + 1, returns id.
\* `id + 1` is u32 arithmetic: at u32::MAX it panics in a build with overflow
\* checks and wraps to 0 in a build without them, so both outcomes are kept.
_next_id(counter) ==
    LET id == unwrap_or(counter, 0) IN
    IF id + 1 > U32Max
    THEN { [panicked |-> TRUE, id |-> id, stored |-> counter],
           [panicked |-> FALSE, id |-> id, stored |-> {(id + 1) % (U32Max + 1)}] }
    ELSE { [panicked |-> FALSE, id |-> id, stored |-> {id + 1}] }

\* Fault variant of NewSubscription: the payment clock starts at the epoch
\* instead of at the ledger timestamp.
NewSubscriptionEpoch(subscriber, plan, timestamp) ==
    [ subscriber             |-> subscriber,
      merchant               |-> plan.merchant,
      amount                 |-> plan.amount,
      interval_seconds       |-> plan.interval_seconds,
      last_payment_timestamp |-> 0,
      status                 |-> "Active",
      prepaid_balance        |-> 0,
      usage_enabled          |-> plan.usage_enabled ]

\* The Subscription value create_subscription builds.
NewSubscription(subscriber, plan, timestamp) ==
    [ subscriber             |-> subscriber,
      merchant               |-> plan.merchant,
      amount                 |-> plan.amount,
      interval_seconds       |-> plan.interval_seconds,
      last_payment_timestamp |-> timestamp,
      status                 |-> "Active",
      prepaid_balance        |-> 0,
      usage_enabled          |-> plan.usage_enabled ]

\* Fault variant of IndexAppend: the stored Vec is replaced by a fresh one
\* holding only the new id.
IndexAppendOverwrite(idx, subscriber, id) ==
    MapPut(idx, subscriber, <<id>>)

\* Fault variant of IndexAppend: one index shared by every subscriber (the
\* key does not carry the address).
IndexAppendShared(idx, subscriber, id) ==
    LET ids == IF "A" \in DOMAIN idx THEN idx["A"] ELSE << >>
    IN  MapPut(idx, "A", Append(ids, id))

\* Fault variant of IndexAppend: push_front instead of push_back.
IndexAppendFront(idx, subscriber, id) ==
    LET ids == IF subscriber \in DOMAIN idx THEN idx[subscriber] ELSE << >>
    IN  MapPut(idx, subscriber, <<id>> \o ids)

\* Fault variant of IndexAppend: the id is pushed twice.
IndexAppendTwice(idx, subscriber, id) ==
    LET ids == IF subscriber \in DOMAIN idx THEN idx[subscriber] ELSE << >>
    IN  MapPut(idx, subscriber, Append(Append(ids, id), id))

\* The subscriber -> [subscription ids] index update of create_subscription:
\* load the Vec (empty when the key is absent), push_back(id), store it.
IndexAppend(idx, subscriber, id) ==
    LET ids == IF subscriber \in DOMAIN idx THEN idx[subscriber] ELSE << >>
    IN  MapPut(idx, subscriber, Append(ids, id))

\* ----------------------------------------------------------- read queries

\* fn get_subscription: the stored record, or Error::NotFound.
get_subscription(subs, subscription_id) ==
    IF subscription_id \in DOMAIN subs
    THEN [status |-> "Ok", value |-> <<subs[subscription_id]>>]
    ELSE [status |-> "NotFound", value |-> << >>]

\* Fault variant of LoadIds: .unwrap() instead of .unwrap_or_else(..), which
\* panics when the subscriber has no index entry.
LoadIdsUnwrap(idx, subscriber) ==
    [ panicked |-> subscriber \notin DOMAIN idx,
      ids      |-> IF subscriber \in DOMAIN idx THEN idx[subscriber] ELSE << >> ]

\* The index load of get_subscriptions_by_subscriber:
\* .get(&index_key).unwrap_or_else(|| Vec::new(&env)).
LoadIds(idx, subscriber) ==
    [ panicked |-> FALSE,
      ids      |-> IF subscriber \in DOMAIN idx THEN idx[subscriber] ELSE << >> ]

\* Fault variant of PageWindow: the end of the window ignores `start`.
PageWindowNoStart(total, start, limit) ==
    [ start_idx |-> Min(start, total),
      end_idx   |-> IF limit = 0 THEN total ELSE Min(limit, total) ]

\* Fault variant of PageWindow: limit = 0 is not treated as "all".
PageWindowNoSentinel(total, start, limit) ==
    [ start_idx |-> Min(start, total),
      end_idx   |-> Min(saturating_add(start, limit), total) ]

\* The window of get_subscriptions_by_subscriber: (start_idx, end_idx).
PageWindow(total, start, limit) ==
    [ start_idx |-> Min(start, total),
      end_idx   |-> IF limit = 0
                    THEN total
                    ELSE Min(saturating_add(start, limit), total) ]

\* Fault variant of PageLoop: the loop stops one position early
\* (`while i + 1 < end_idx`).
RECURSIVE PageLoopShort(_, _, _, _, _)
PageLoopShort(ids, subs, i, end_idx, result) ==
    IF i + 1 < end_idx
    THEN LET next == IF i < Len(ids) /\ ids[i + 1] \in DOMAIN subs
                     THEN Append(result, [id |-> ids[i + 1], subscription |-> subs[ids[i + 1]]])
                     ELSE result
         IN  PageLoopShort(ids, subs, i + 1, end_idx, next)
    ELSE [panicked |-> FALSE, entries |-> result]

\* The `while i < end_idx` loop of get_subscriptions_by_subscriber.  ids.get(i)
\* is 0-based and yields None past the end; a listed id without a record is
\* skipped.  `i += 1` is u32 arithmetic.
RECURSIVE PageLoop(_, _, _, _, _)
PageLoop(ids, subs, i, end_idx, result) ==
    IF i < end_idx
    THEN LET got  == IF i < Len(ids) THEN {ids[i + 1]} ELSE {}
             next == IF got = {}
                     THEN result
                     ELSE LET sub_id == CHOOSE x \in got : TRUE IN
                          IF sub_id \in DOMAIN subs
                          THEN Append(result, [id |-> sub_id, subscription |-> subs[sub_id]])
                          ELSE result
         IN  IF i + 1 > U32Max
             THEN [panicked |-> TRUE, entries |-> next]
             ELSE PageLoop(ids, subs, i + 1, end_idx, next)
    ELSE [panicked |-> FALSE, entries |-> result]

\* fn get_subscriptions_by_subscriber, as a function of the storage it reads.
get_subscriptions_by_subscriber(idx, subs, subscriber, start, limit) ==
    LET loaded == LoadIds(idx, subscriber) IN
    IF loaded.panicked
    THEN [status |-> "Panic", value |-> << >>]
    ELSE LET w == PageWindow(Len(loaded.ids), start, limit)
             r == PageLoop(loaded.ids, subs, w.start_idx, w.end_idx, << >>)
         IN  IF r.panicked
             THEN [status |-> "Panic", value |-> << >>]
             ELSE [status |-> "Ok", value |-> r.entries]

\* The ids of a page.
EntryIds(entries) == [k \in 1..Len(entries) |-> entries[k].id]

\* ------------------------------------------------------------ entry points

\* What an invocation leaves behind for its caller: the entry point, its
\* arguments (a record), Ok / NotFound / Panic, and the returned value as a
\* sequence of records: <<[id |-> n]>> for an id, <<record>> for a
\* subscription, the entries for a page, empty for () and for an error.
Result(op, status, args, value) ==
    [op |-> op, status |-> status, args |-> args, value |-> value]

\* Fault variant of Initialize: an already-initialized guard refuses a second
\* init.
InitializeOnce(t, a) ==
    /\ IF token = {}
       THEN /\ token' = {t}
            /\ admin' = {a}
            /\ ret' = Result("init", "Ok", [token |-> t, admin |-> a], << >>)
       ELSE /\ ret' = Result("init", "Unauthorized", [token |-> t, admin |-> a], << >>)
            /\ UNCHANGED <<token, admin>>
    /\ UNCHANGED <<nextId, subscriptions, subscriberIndex, now, created, client>>

\* pub fn init: stores Token and Admin; no authorization, no guard.
Initialize(t, a) ==
    /\ token' = {t}
    /\ admin' = {a}
    /\ ret' = Result("init", "Ok", [token |-> t, admin |-> a], << >>)
    /\ UNCHANGED <<nextId, subscriptions, subscriberIndex, now, created, client>>

\* Fault variant of CreateSubscription: the id is allocated before the
\* authorization is checked and the advance of the counter survives the
\* failure.
CreateSubscriptionLeaky(subscriber, plan, authorized) ==
    /\ Len(created) < MaxCreates
    /\ \E o \in _next_id(nextId) :
         IF ~authorized \/ o.panicked
         THEN /\ ret' = Result("create_subscription", "Panic",
                               [subscriber |-> subscriber, plan |-> plan], << >>)
              /\ nextId' = o.stored
              /\ UNCHANGED <<subscriptions, subscriberIndex, created>>
         ELSE LET sub == NewSubscription(subscriber, plan, now) IN
              /\ nextId' = o.stored
              /\ subscriptions' = MapPut(subscriptions, o.id, sub)
              /\ subscriberIndex' = IndexAppend(subscriberIndex, subscriber, o.id)
              /\ created' = Append(created, [id |-> o.id, subscription |-> sub])
              /\ ret' = Result("create_subscription", "Ok",
                               [subscriber |-> subscriber, plan |-> plan],
                               <<[id |-> o.id]>>)
    /\ UNCHANGED <<token, admin, now, client>>

\* pub fn create_subscription.  `authorized` is the outcome of
\* subscriber.require_auth(); a failed check and an allocator panic abort the
\* invocation before anything is persisted.
CreateSubscription(subscriber, plan, authorized) ==
    /\ Len(created) < MaxCreates
    /\ \E o \in _next_id(nextId) :
         IF ~authorized \/ o.panicked
         THEN /\ ret' = Result("create_subscription", "Panic",
                               [subscriber |-> subscriber, plan |-> plan], << >>)
              /\ UNCHANGED <<nextId, subscriptions, subscriberIndex, created>>
         ELSE LET sub == NewSubscription(subscriber, plan, now) IN
              /\ nextId' = o.stored
              /\ subscriptions' = MapPut(subscriptions, o.id, sub)
              /\ subscriberIndex' = IndexAppend(subscriberIndex, subscriber, o.id)
              /\ created' = Append(created, [id |-> o.id, subscription |-> sub])
              /\ ret' = Result("create_subscription", "Ok",
                               [subscriber |-> subscriber, plan |-> plan],
                               <<[id |-> o.id]>>)
    /\ UNCHANGED <<token, admin, now, client>>

\* pub fn deposit_funds: subscriber.require_auth(), then Ok(()); the transfer
\* and the balance increase are still a TODO, so no storage is touched.
DepositFunds(subscription_id, authorized) ==
    /\ ret' = Result("deposit_funds", IF authorized THEN "Ok" ELSE "Panic",
                     [subscription_id |-> subscription_id], << >>)
    /\ UNCHANGED <<store, now, created, client>>

\* pub fn charge_subscription: Ok(()) with no authorization check, no load of
\* the subscription and no storage write (the body is a TODO).
ChargeSubscription(subscription_id) ==
    /\ ret' = Result("charge_subscription", "Ok",
                     [subscription_id |-> subscription_id], << >>)
    /\ UNCHANGED <<store, now, created, client>>

\* pub fn cancel_subscription: authorizer.require_auth(), then Ok(()); the
\* status change is still a TODO.
CancelSubscription(subscription_id, authorized) ==
    /\ ret' = Result("cancel_subscription", IF authorized THEN "Ok" ELSE "Panic",
                     [subscription_id |-> subscription_id], << >>)
    /\ UNCHANGED <<store, now, created, client>>

\* pub fn pause_subscription: authorizer.require_auth(), then Ok(()); the
\* status change is still a TODO.
PauseSubscription(subscription_id, authorized) ==
    /\ ret' = Result("pause_subscription", IF authorized THEN "Ok" ELSE "Panic",
                     [subscription_id |-> subscription_id], << >>)
    /\ UNCHANGED <<store, now, created, client>>

\* pub fn withdraw_merchant_funds: merchant.require_auth(), then Ok(()).
WithdrawMerchantFunds(merchant, authorized) ==
    /\ ret' = Result("withdraw_merchant_funds", IF authorized THEN "Ok" ELSE "Panic",
                     [merchant |-> merchant], << >>)
    /\ UNCHANGED <<store, now, created, client>>

\* pub fn get_subscription.
GetSubscription(subscription_id) ==
    LET r == get_subscription(subscriptions, subscription_id) IN
    /\ ret' = Result("get_subscription", r.status,
                     [subscription_id |-> subscription_id], r.value)
    /\ UNCHANGED <<store, now, created, client>>

\* Fault variant of GetSubscriptionsBySubscriber: the loaded Vec (empty when
\* the key is absent) is written back under the subscriber's index key.
GetSubscriptionsBySubscriberStoring(subscriber, start, limit) ==
    LET r == get_subscriptions_by_subscriber(subscriberIndex, subscriptions,
                                             subscriber, start, limit) IN
    /\ ret' = Result("get_subscriptions_by_subscriber", r.status,
                     [subscriber |-> subscriber, start |-> start, limit |-> limit],
                     r.value)
    /\ subscriberIndex' = MapPut(subscriberIndex, subscriber,
                                 LoadIds(subscriberIndex, subscriber).ids)
    /\ UNCHANGED <<token, admin, nextId, subscriptions, now, created, client>>

\* pub fn get_subscriptions_by_subscriber.
GetSubscriptionsBySubscriber(subscriber, start, limit) ==
    LET r == get_subscriptions_by_subscriber(subscriberIndex, subscriptions,
                                             subscriber, start, limit) IN
    /\ ret' = Result("get_subscriptions_by_subscriber", r.status,
                     [subscriber |-> subscriber, start |-> start, limit |-> limit],
                     r.value)
    /\ UNCHANGED <<store, now, created, client>>

\* The ledger closes: the timestamp never decreases.
Tick ==
    /\ now < MaxTime
    /\ now' = now + 1
    /\ UNCHANGED <<store, ret, created, client>>

\* ------------------------------------------------- usage metering (spec 4.4)

\* Fault variant of charge_usage: the balance is not compared with the amount.
charge_usage_unchecked(subs, subscription_id, usage_amount) ==
    IF subscription_id \notin DOMAIN subs
    THEN [status |-> "NotFound", subs |-> subs]
    ELSE LET sub == subs[subscription_id]
             balance == sub.prepaid_balance - usage_amount
         IN  IF sub.status # "Active" THEN [status |-> "NotActive", subs |-> subs]
             ELSE IF ~sub.usage_enabled THEN [status |-> "UsageNotEnabled", subs |-> subs]
             ELSE IF usage_amount <= 0 THEN [status |-> "InvalidAmount", subs |-> subs]
             ELSE [status |-> "Ok",
                   subs |-> MapPut(subs, subscription_id,
                               [sub EXCEPT !.prepaid_balance = balance,
                                           !.status = IF balance = 0
                                                      THEN "InsufficientBalance"
                                                      ELSE "Active"])]

\* The source declares the fields a usage debit works on (prepaid_balance,
\* usage_enabled, SubscriptionStatus::InsufficientBalance) but has no entry
\* point that performs one; this operator follows the specification's
\* chargeUsage contract.  Preconditions in order: the record exists, it is
\* Active, usage is enabled, the amount is positive, the balance covers it.
\* Effect: the balance decreases by the amount, and the status becomes
\* InsufficientBalance when the balance reaches exactly 0.
charge_usage(subs, subscription_id, usage_amount) ==
    IF subscription_id \notin DOMAIN subs
    THEN [status |-> "NotFound", subs |-> subs]
    ELSE LET sub == subs[subscription_id]
             balance == sub.prepaid_balance - usage_amount
         IN  IF sub.status # "Active" THEN [status |-> "NotActive", subs |-> subs]
             ELSE IF ~sub.usage_enabled THEN [status |-> "UsageNotEnabled", subs |-> subs]
             ELSE IF usage_amount <= 0 THEN [status |-> "InvalidAmount", subs |-> subs]
             ELSE IF sub.prepaid_balance < usage_amount
                  THEN [status |-> "InsufficientPrepaidBalance", subs |-> subs]
             ELSE [status |-> "Ok",
                   subs |-> MapPut(subs, subscription_id,
                               [sub EXCEPT !.prepaid_balance = balance,
                                           !.status = IF balance = 0
                                                      THEN "InsufficientBalance"
                                                      ELSE "Active"])]

\* chargeUsage(id, usageAmount, now) as an invocation: all or nothing.
ChargeUsage(subscription_id, usage_amount) ==
    LET r == charge_usage(subscriptions, subscription_id, usage_amount) IN
    /\ subscriptions' = r.subs
    /\ ret' = Result("charge_usage", r.status,
                     [subscription_id |-> subscription_id,
                      usage_amount |-> usage_amount], << >>)
    /\ UNCHANGED <<token, admin, nextId, subscriberIndex, now, created, client>>

\* ------------------------------------------------------ client cursor loop

\* The pagination strategy of the documentation (and of
\* test_view_by_subscriber_large_count_pagination): start at cursor 0.
CursorStart(subscriber, page_size) ==
    /\ pc = "idle"
    /\ pc' = "loop"
    /\ loopSub' = subscriber
    /\ pageSize' = page_size
    /\ cursor' = 0
    /\ collected' = << >>
    /\ startIds' = LoadIds(subscriberIndex, subscriber).ids
    /\ UNCHANGED <<store, now, ret, created>>

\* One iteration: fetch the page at the cursor, collect its ids, advance the
\* cursor by the page's length, stop at the first page shorter than page_size.
CursorStep ==
    /\ pc = "loop"
    /\ LET r == get_subscriptions_by_subscriber(subscriberIndex, subscriptions,
                                                loopSub, cursor, pageSize)
       IN  /\ ret' = Result("get_subscriptions_by_subscriber", r.status,
                            [subscriber |-> loopSub, start |-> cursor, limit |-> pageSize],
                            r.value)
           /\ IF r.status = "Ok"
              THEN /\ collected' = collected \o EntryIds(r.value)
                   /\ cursor' = cursor + Len(r.value)
                   /\ pc' = IF Len(r.value) < pageSize THEN "done" ELSE "loop"
              ELSE /\ pc' = "done"
                   /\ UNCHANGED <<cursor, collected>>
    /\ UNCHANGED <<store, now, created, loopSub, pageSize, startIds>>

\* ---------------------------------------------------------- specifications

Init ==
    /\ token = {}
    /\ admin = {}
    /\ nextId = {}
    /\ subscriptions = EmptyMap
    /\ subscriberIndex = EmptyMap
    /\ now = 0
    /\ ret = Result("none", "Ok", [none |-> TRUE], << >>)
    /\ created = << >>
    /\ pc = "idle"
    /\ loopSub = "Z"
    /\ pageSize = 0
    /\ cursor = 0
    /\ collected = << >>
    /\ startIds = << >>

Create ==
    \E subscriber \in Subscribers, plan \in Plans, authorized \in BOOLEAN :
        CreateSubscription(subscriber, plan, authorized)

\* The whole contract: every entry point and the ledger clock.  The page
\* query is made in its list-all form (start 0, limit 0); NextPage below
\* ranges over start and limit.
Next ==
    \/ \E t \in {"T1", "T2"} : Initialize(t, IF t = "T1" THEN "G1" ELSE "G2")
    \/ Create
    \/ \E id \in {0, UnknownId}, authorized \in BOOLEAN : DepositFunds(id, authorized)
    \/ \E id \in {0, UnknownId} : ChargeSubscription(id)
    \/ \E id \in {0, UnknownId}, authorized \in BOOLEAN : CancelSubscription(id, authorized)
    \/ \E id \in {0, UnknownId}, authorized \in BOOLEAN : PauseSubscription(id, authorized)
    \/ \E authorized \in BOOLEAN : WithdrawMerchantFunds("M", authorized)
    \/ \E id \in QueryIds : GetSubscription(id)
    \/ \E subscriber \in QueryAddresses :
           GetSubscriptionsBySubscriber(subscriber, 0, 0)
    \/ Tick

Spec == Init /\ [][Next]_vars

\* Creation and the page query over the full range of start and limit.
NextPage ==
    \/ Create
    \/ \E subscriber \in QueryAddresses, start \in Starts, limit \in Limits :
           GetSubscriptionsBySubscriber(subscriber, start, limit)

SpecPage == Init /\ [][NextPage]_vars

\* Creation interleaved with a client's cursor loop.
NextCursor ==
    \/ Create
    \/ \E subscriber \in QueryAddresses, page_size \in 1..MaxPageSize :
           CursorStart(subscriber, page_size)
    \/ CursorStep

SpecCursor == Init /\ [][NextCursor]_vars

\* The client runs its loop to the end: each iteration is a call it makes.
SpecCursorFair == SpecCursor /\ WF_vars(CursorStep)

\* A store holding one subscription of A, id 0, in any status, with usage
\* enabled or not and any balance up to MaxBalance, at any ledger time.
InitUsage ==
    /\ token = {"T1"}
    /\ admin = {"G1"}
    /\ nextId = {1}
    /\ now \in 0..MaxTime
    /\ \E plan \in Plans, status \in Statuses, balance \in 0..MaxBalance :
         LET sub == [NewSubscription("A", plan, 0) EXCEPT
                        !.status = status, !.prepaid_balance = balance]
         IN  /\ subscriptions = MapPut(EmptyMap, 0, sub)
             /\ created = <<[id |-> 0, subscription |-> sub]>>
    /\ subscriberIndex = IndexAppend(EmptyMap, "A", 0)
    /\ ret = Result("none", "Ok", [none |-> TRUE], << >>)
    /\ pc = "idle"
    /\ loopSub = "Z"
    /\ pageSize = 0
    /\ cursor = 0
    /\ collected = << >>
    /\ startIds = << >>

\* Usage debits of every amount from -1 to one more than the largest balance,
\* on the stored id and on an unknown one.
NextUsage ==
    \E id \in {0, UnknownId}, usage_amount \in (-1)..(MaxBalance + 1) :
        ChargeUsage(id, usage_amount)

SpecUsage == InitUsage /\ [][NextUsage]_vars

\* The store once the counter has reached the largest word: the next
\* create_subscription computes id + 1 past it.  Of the records and index
\* entries written by the earlier creations only those of id 0 (subscriber A)
\* are kept; create_subscription and get_subscription read none of the
\* others.
InitOverflow ==
    /\ token = {"T1"}
    /\ admin = {"G1"}
    /\ nextId = {U32Max}
    /\ now = 0
    /\ LET sub == NewSubscription("A", CHOOSE plan \in Plans : plan.merchant = "M", 0)
       IN  /\ subscriptions = MapPut(EmptyMap, 0, sub)
           /\ created = <<[id |-> 0, subscription |-> sub]>>
    /\ subscriberIndex = IndexAppend(EmptyMap, "A", 0)
    /\ ret = Result("none", "Ok", [none |-> TRUE], << >>)
    /\ pc = "idle"
    /\ loopSub = "Z"
    /\ pageSize = 0
    /\ cursor = 0
    /\ collected = << >>
    /\ startIds = << >>

\* Creations at the top of the id range, lookups of the first and the last
\* id, and the list-all page of each subscriber.
NextOverflow ==
    \/ Create
    \/ \E id \in {0, U32Max} : GetSubscription(id)
    \/ \E subscriber \in Subscribers :
           GetSubscriptionsBySubscriber(subscriber, 0, 0)

SpecOverflow == InitOverflow /\ [][NextOverflow]_vars

\* ------------------------------------------------------------ properties

Page == "get_subscriptions_by_subscriber"

\* The subscriber's index in the current state (empty when the key is absent).
IdsOf(subscriber) ==
    IF subscriber \in DOMAIN subscriberIndex THEN subscriberIndex[subscriber] ELSE << >>

\* The (id, record) pairs written by the creations for `subscriber`, in
\* creation order.
CreatedFor(subscriber) ==
    LET Mine(e) == e.subscription.subscriber = subscriber
    IN  SelectSeq(created, Mine)

\* The entries at the 0-based index positions [lo, hi) of the subscriber's
\* index, each paired with the record stored under its id.
WindowOf(subscriber, lo, hi) ==
    LET ids == IdsOf(subscriber)
    IN  [k \in 1..(hi - lo) |->
            [id |-> ids[lo + k], subscription |-> subscriptions[ids[lo + k]]]]

\* C1. The k-th successful create_subscription returns id k-1: ids start at
\* 0, grow by exactly 1 per creation whatever the subscribers and whatever
\* other invocations are interleaved, and no id is returned twice.
C1_IdMonotonicity ==
    /\ \A k \in 1..Len(created) : created[k].id = k - 1
    /\ \A j, k \in 1..Len(created) : created[j].id = created[k].id => j = k
    /\ (ret.op = "create_subscription" /\ ret.status = "Ok")
          => ret.value = <<[id |-> Len(created) - 1]>>

\* The third creation has just returned id 2, after creations for two
\* different subscribers.
C1_Witness ==
    /\ ret.op = "create_subscription" /\ ret.status = "Ok"
    /\ Len(created) = 3
    /\ ret.value[1].id = 2
    /\ created[1].subscription.subscriber # created[2].subscription.subscriber

\* C2. After N successful creations for subscriber S, interleaved with
\* anything else, get_subscriptions_by_subscriber(S, 0, 0) returns exactly N
\* entries, in strictly ascending id order, which is creation order, and each
\* entry is the (id, record) written when that id was created.
C2_IndexCompleteness ==
    /\ \A s \in Addresses :
         LET r == get_subscriptions_by_subscriber(subscriberIndex, subscriptions, s, 0, 0)
         IN  /\ r.status = "Ok"
             /\ r.value = CreatedFor(s)
             /\ \A k \in 1..(Len(r.value) - 1) : r.value[k].id < r.value[k + 1].id
    /\ (ret.op = Page /\ ret.args.start = 0 /\ ret.args.limit = 0)
          => /\ ret.status = "Ok"
             /\ ret.value = CreatedFor(ret.args.subscriber)

\* A has two subscriptions with one of B's created between them, and the
\* query (A, 0, 0) has just returned both.
C2_Witness ==
    /\ ret.op = Page /\ ret.args.subscriber = "A"
    /\ ret.args.start = 0 /\ ret.args.limit = 0
    /\ EntryIds(ret.value) = <<0, 2>>
    /\ created[2].subscription.subscriber = "B"
    /\ ret.value[1].subscription # ret.value[2].subscription

\* C3. Index isolation: every entry of a page returned for subscriber B, for
\* any start and limit, is a subscription of B: its record names B and its id
\* was created for B, however the creations were interleaved.
C3_IndexIsolation ==
    (ret.op = Page)
       => \A k \in 1..Len(ret.value) :
             /\ ret.value[k].subscription.subscriber = ret.args.subscriber
             /\ ret.value[k].id < Len(created)
             /\ created[ret.value[k].id + 1].subscription.subscriber
                   = ret.args.subscriber

\* Creations A, B, A; a page of B holds only id 1.
C3_Witness ==
    /\ ret.op = Page /\ ret.args.subscriber = "B"
    /\ Len(created) = 3
    /\ created[1].subscription.subscriber = "A"
    /\ created[2].subscription.subscriber = "B"
    /\ created[3].subscription.subscriber = "A"
    /\ EntryIds(ret.value) = <<1>>

\* C4. Pagination windowing: with limit > 0 the page is exactly the entries
\* at index positions [min(start,total), min(start+limit,total)) in index
\* order: at most limit entries, exactly limit when start+limit <= total, and
\* the remaining total-start entries when the limit exceeds what is left.
C4_PaginationWindowing ==
    (ret.op = Page /\ ret.args.limit > 0)
       => LET start == ret.args.start
              limit == ret.args.limit
              total == Len(IdsOf(ret.args.subscriber))
              lo    == IF start <= total THEN start ELSE total
              hi    == IF start + limit <= total THEN start + limit ELSE total
          IN  /\ ret.status = "Ok"
              /\ ret.value = WindowOf(ret.args.subscriber, lo, hi)
              /\ Len(ret.value) <= limit
              /\ (start + limit <= total => Len(ret.value) = limit)
              /\ (start <= total /\ start + limit > total
                    => Len(ret.value) = total - start)

\* A full page from the middle of a three-entry index: start 1, limit 1.
C4_Witness ==
    /\ ret.op = Page /\ ret.args.start = 1 /\ ret.args.limit = 1
    /\ Len(IdsOf(ret.args.subscriber)) = 3
    /\ EntryIds(ret.value) = <<1>>

\* C5. Limit-zero sentinel: with limit = 0 the page is every entry from
\* position start to the end of the index (all of them when start = 0), never
\* empty merely because the limit is 0.
C5_LimitZeroSentinel ==
    (ret.op = Page /\ ret.args.limit = 0)
       => LET start == ret.args.start
              total == Len(IdsOf(ret.args.subscriber))
              lo    == IF start <= total THEN start ELSE total
          IN  /\ ret.status = "Ok"
              /\ ret.value = WindowOf(ret.args.subscriber, lo, total)
              /\ (start = 0 => Len(ret.value) = total)
              /\ (start < total => Len(ret.value) = total - start)

\* limit = 0 from position 1 of a three-entry index returns the last two.
C5_Witness ==
    /\ ret.op = Page /\ ret.args.limit = 0 /\ ret.args.start = 1
    /\ Len(IdsOf(ret.args.subscriber)) = 3
    /\ Len(ret.value) = 2

\* C6. get_subscriptions_by_subscriber never fails: it returns normally for
\* every argument, with an empty sequence for a subscriber that has no index
\* entry (also an address never seen) and for any start >= the subscriber's
\* total, whatever the limit.
C6_PageNeverFails ==
    (ret.op = Page)
       => /\ ret.status = "Ok"
          /\ (ret.args.subscriber \notin DOMAIN subscriberIndex => ret.value = << >>)
          /\ (ret.args.start >= Len(IdsOf(ret.args.subscriber)) => ret.value = << >>)

\* An address with no index entry is queried with the largest limit while
\* other subscribers have subscriptions.
C6_Witness ==
    /\ ret.op = Page /\ ret.status = "Ok"
    /\ ret.args.subscriber \notin DOMAIN subscriberIndex
    /\ ret.args.limit = U32Max
    /\ Len(created) > 0
    /\ ret.value = << >>

\* C9, across a step: when an invocation is a successful creation, the state
\* it leaves holds, under the id it returned, the record built from its
\* arguments and the ledger timestamp of the call (which the call does not
\* change), and get_subscription(id) returns that record.
C9_CreateStep ==
    (Len(created') > Len(created))
       => LET id  == ret'.value[1].id
              rec == [ subscriber             |-> ret'.args.subscriber,
                       merchant               |-> ret'.args.plan.merchant,
                       amount                 |-> ret'.args.plan.amount,
                       interval_seconds       |-> ret'.args.plan.interval_seconds,
                       last_payment_timestamp |-> now,
                       status                 |-> "Active",
                       prepaid_balance        |-> 0,
                       usage_enabled          |-> ret'.args.plan.usage_enabled ]
          IN  /\ ret'.op = "create_subscription" /\ ret'.status = "Ok"
              /\ now' = now
              /\ id \in DOMAIN subscriptions'
              /\ subscriptions'[id] = rec
              /\ get_subscription(subscriptions', id) = [status |-> "Ok", value |-> <<rec>>]

Found(subs, id) == get_subscription(subs, id).status = "Ok"

\* C10, in one state: get_subscription(id) is NotFound exactly when
\* id >= the number of creations so far, and otherwise returns the stored
\* record, which is the one written at creation.
C10_NotFoundExactly ==
    /\ \A id \in QueryIds :
         LET r == get_subscription(subscriptions, id)
         IN  IF id >= Len(created)
             THEN r = [status |-> "NotFound", value |-> << >>]
             ELSE r = [status |-> "Ok", value |-> <<created[id + 1].subscription>>]
    /\ (ret.op = "get_subscription")
          => ret.status = (IF ret.args.subscription_id >= Len(created)
                           THEN "NotFound" ELSE "Ok")

\* C10, across a step: an id that get_subscription finds is found after every
\* invocation (no entry point deletes a record).
C10_NeverDeleted ==
    \A id \in QueryIds : Found(subscriptions, id) => Found(subscriptions', id)

\* C10. get_subscription(id) returns Error::NotFound exactly when no
\* subscription with that id has been created (id >= number of creations),
\* otherwise the stored record; once it has returned a record for an id it
\* never returns NotFound for that id in a later state.
C10_GetSubscription ==
    [] C10_NotFoundExactly /\ [][C10_NeverDeleted]_vars

\* The first id not yet allocated has just been looked up, with records
\* stored below it: NotFound at the boundary id = number of creations.
C10_Witness ==
    /\ ret.op = "get_subscription" /\ ret.status = "NotFound"
    /\ Len(created) = 2
    /\ ret.args.subscription_id = 2
    /\ Found(subscriptions, 1)

\* A sequence of ids is strictly ascending (so it holds no id twice).
Ascending(ids) == \A k \in 1..(Len(ids) - 1) : ids[k] < ids[k + 1]

\* p is a prefix of q.
IsPrefix(p, q) == Len(p) <= Len(q) /\ SubSeq(q, 1, Len(p)) = p

\* C7, in one state of the cursor loop: what has been collected is exactly the
\* first `cursor` ids of the subscriber's index, each once and ascending; a
\* page shorter than the page size was returned only at the end of the index;
\* and a loop that ended over an index of N ids (none added meanwhile) has
\* collected all N.
C7_LoopState ==
    /\ (pc # "idle")
          => /\ cursor = Len(collected)
             /\ IsPrefix(collected, IdsOf(loopSub))
             /\ Ascending(collected)
    /\ (ret.op = Page /\ Len(ret.value) < ret.args.limit)
          => ret.args.start + Len(ret.value) >= Len(IdsOf(ret.args.subscriber))
    /\ (pc = "done" /\ IdsOf(loopSub) = startIds)
          => /\ collected = startIds
             /\ cursor = Len(startIds)

\* C7. Cursor-loop completeness and termination: for a subscriber with N
\* subscriptions and a page size P >= 1, the loop from cursor 0 that advances
\* by the returned length and stops at the first page shorter than P
\* terminates and collects each of the N ids exactly once, ascending; a short
\* page is returned only when the end of the index has been reached.
C7_CursorLoop ==
    [] C7_LoopState /\ ((pc = "loop") ~> (pc = "done"))

\* Three subscriptions paged two at a time: the loop ended after a full and
\* a short page with all three ids.
C7_Witness ==
    /\ pc = "done" /\ pageSize = 2
    /\ IdsOf(loopSub) = startIds
    /\ Len(startIds) = 3
    /\ collected = startIds
    /\ Len(ret.value) = 1

\* The page query as the next state answers it.
PageAfter(subscriber, start, limit) ==
    get_subscriptions_by_subscriber(subscriberIndex', subscriptions',
                                    subscriber, start, limit)

\* C8 as stated, across a step: index positions keep their ids, and the
\* (non-empty) page the last invocation returned is returned identically by
\* the same query (same subscriber, start and limit) in the next state.
C8_SamePageStep ==
    /\ \A s \in DOMAIN subscriberIndex :
          s \in DOMAIN subscriberIndex' /\ IsPrefix(subscriberIndex[s], subscriberIndex'[s])
    /\ (ret.op = Page /\ ret.status = "Ok" /\ Len(ret.value) > 0)
          => PageAfter(ret.args.subscriber, ret.args.start, ret.args.limit).value
                = ret.value

\* C8 as stated: live-cursor stability with every returned page returned
\* identically by the same query in any later state.
C8_AsStated == [][C8_SamePageStep]_vars

\* C8 as amended, across a step: every index keeps the id at each position it
\* has, every record is unchanged, and for every page query the page of this
\* state is a prefix of the page the same query returns in the next state,
\* identical when it was full (its length equals the limit) and identical
\* when its window [start, start+len) is queried again.
C8_StableStep ==
    /\ \A s \in DOMAIN subscriberIndex :
          s \in DOMAIN subscriberIndex' /\ IsPrefix(subscriberIndex[s], subscriberIndex'[s])
    /\ \A id \in DOMAIN subscriptions :
          id \in DOMAIN subscriptions' /\ subscriptions'[id] = subscriptions[id]
    /\ \A s \in QueryAddresses, start \in 0..MaxCreates, limit \in 0..MaxPageSize :
          LET page == get_subscriptions_by_subscriber(subscriberIndex, subscriptions,
                                                      s, start, limit).value
          IN  /\ IsPrefix(page, PageAfter(s, start, limit).value)
              /\ (limit > 0 /\ Len(page) = limit) => PageAfter(s, start, limit).value = page
              /\ (Len(page) > 0) => PageAfter(s, start, Len(page)).value = page

\* C8 as amended, in one state of a cursor loop interleaved with creations:
\* no id is collected twice, the collected ids are the first `cursor` ids of
\* the index, and a finished loop holds every id the index had when it began.
C8_LoopState ==
    (pc # "idle")
       => /\ Ascending(collected)
          /\ IsPrefix(collected, IdsOf(loopSub))
          /\ cursor = Len(collected)
          /\ (pc = "done" => IsPrefix(startIds, collected))

\* C8 (amended). Live-cursor stability: under any interleaving of creations
\* with page queries, the id at position p of an index, once present, is the
\* same in every later state; hence the entries of a page already returned
\* keep their positions: the same query later returns a page that starts with
\* them (identical if the page was full or if its window is queried again),
\* and a cursor loop never returns an id twice nor skips an id that existed
\* when it started.
C8_LiveCursor == [][C8_StableStep]_vars /\ [] C8_LoopState

\* A loop over an index of one id ended with two: a second subscription was
\* created while it ran and was collected, a third after it ended.
C8_Witness ==
    /\ pc = "done"
    /\ Len(startIds) = 1
    /\ Len(collected) = 2
    /\ Len(IdsOf(loopSub)) = 3

\* C11, across a step, for one address: its index keeps its key and is either
\* unchanged or the previous sequence with one id appended at the end; it
\* changes only in a successful create_subscription for that address, and the
\* appended id is the one that invocation returned.
C11_IndexStep(s) ==
    LET old == IdsOf(s)
        new == IF s \in DOMAIN subscriberIndex' THEN subscriberIndex'[s] ELSE << >>
    IN  /\ (s \in DOMAIN subscriberIndex) => (s \in DOMAIN subscriberIndex')
        /\ \/ new = old
           \/ /\ Len(new) = Len(old) + 1
              /\ SubSeq(new, 1, Len(old)) = old
              /\ Len(created') = Len(created) + 1
              /\ ret'.op = "create_subscription" /\ ret'.status = "Ok"
              /\ ret'.args.subscriber = s
              /\ new[Len(new)] = ret'.value[1].id

\* C11, in one state: every index is strictly ascending, so it holds no id
\* twice and lists its ids in creation order.
C11_IndexAscending == \A s \in QueryAddresses : Ascending(IdsOf(s))

\* C11. The subscriber index is append-only: across every step each
\* subscriber's index is unchanged or extended by exactly one id at the end,
\* only a successful create_subscription for S changes S's index, no id is
\* removed, reordered or duplicated, and every index is strictly ascending.
C11_AppendOnlyIndex ==
    [][\A s \in QueryAddresses : C11_IndexStep(s)]_vars /\ [] C11_IndexAscending

\* Creations for A and B have interleaved: A's index was extended a second
\* time, past an id that went to B, while B's stayed as it was.
C11_Witness ==
    /\ IdsOf("A") = <<0, 2>>
    /\ IdsOf("B") = <<1>>
    /\ ret.op = "create_subscription" /\ ret.status = "Ok"
    /\ ret.args.subscriber = "A"

\* The step is an invocation of charge_subscription (the ledger clock is the
\* only step that keeps the previous invocation's result).
ChargeStep == ret'.op = "charge_subscription" /\ now' = now

\* C12, across a step: a charge of an existing Active subscription before
\* last_payment_timestamp + interval_seconds is refused with
\* IntervalNotElapsed and changes no record; at or after it, it succeeds and
\* moves last_payment_timestamp to the ledger timestamp.
C12_ChargeGate ==
    LET id == ret'.args.subscription_id IN
    (ChargeStep /\ id \in DOMAIN subscriptions /\ subscriptions[id].status = "Active")
       => LET sub == subscriptions[id] IN
          IF now < sub.last_payment_timestamp + sub.interval_seconds
          THEN /\ ret'.status = "IntervalNotElapsed"
               /\ subscriptions' = subscriptions
          ELSE /\ ret'.status = "Ok"
               /\ subscriptions'[id].last_payment_timestamp = now

\* C12. Interval gate: for an Active subscription with last_payment_timestamp
\* T and interval_seconds I, charge_subscription at now < T + I fails with
\* IntervalNotElapsed and leaves the record unchanged; at now >= T + I it
\* succeeds and sets last_payment_timestamp := now.
C12_IntervalGate == [][C12_ChargeGate]_vars

\* The previous invocation was a successful pause_subscription(id) (the
\* contract has no resume entry point, so none can lie in between).
JustPaused(id) ==
    /\ ret.op = "pause_subscription" /\ ret.status = "Ok"
    /\ ret.args.subscription_id = id

\* C13, across a step: a charge of an existing subscription that is not
\* Active, or that has just been paused, is refused with NotActive and
\* leaves prepaid_balance and last_payment_timestamp as they were.
C13_ChargeRefused ==
    LET id == ret'.args.subscription_id IN
    (/\ ChargeStep
     /\ id \in DOMAIN subscriptions
     /\ (subscriptions[id].status # "Active" \/ JustPaused(id)))
       => /\ ret'.status = "NotActive"
          /\ subscriptions'[id].prepaid_balance = subscriptions[id].prepaid_balance
          /\ subscriptions'[id].last_payment_timestamp
                = subscriptions[id].last_payment_timestamp

\* C13. A subscription whose status is not Active accepts no charge: every
\* charge_subscription on it is rejected (NotActive) and leaves
\* prepaid_balance and last_payment_timestamp unchanged; in particular no
\* charge succeeds between a pause and a later resume.
C13_NoChargeUnlessActive == [][C13_ChargeRefused]_vars

\* C14, in one state: the subscription whose cancellation has just succeeded
\* reads back as Cancelled.
C14_CancelledAfterCancel ==
    \A id \in DOMAIN subscriptions :
        (/\ ret.op = "cancel_subscription" /\ ret.status = "Ok"
         /\ ret.args.subscription_id = id)
           => get_subscription(subscriptions, id).value[1].status = "Cancelled"

\* C14, across a step: a Cancelled subscription stays Cancelled.
C14_CancelledStays ==
    \A id \in DOMAIN subscriptions :
        (subscriptions[id].status = "Cancelled")
           => (id \in DOMAIN subscriptions' /\ subscriptions'[id].status = "Cancelled")

\* C14. After a successful cancel_subscription(id, authorizer) on an existing
\* subscription, get_subscription(id).status is Cancelled, and it remains
\* Cancelled in every later state reached by charge, pause or query.
C14_CancelIsFinal == [] C14_CancelledAfterCancel /\ [][C14_CancelledStays]_vars

\* C15. After a successful pause_subscription on an existing Active
\* subscription, its status is Paused and every other field of the record is
\* what it was (the record written at creation, no entry point having
\* changed it since).
C15_PauseSetsPaused ==
    \A id \in DOMAIN subscriptions :
        (/\ ret.op = "pause_subscription" /\ ret.status = "Ok"
         /\ ret.args.subscription_id = id)
           => subscriptions[id]
                 = [created[id + 1].subscription EXCEPT !.status = "Paused"]

\* C16. charge_subscription on an id that was never created fails with
\* NotFound and changes no persisted state; it never reports success for an
\* unknown id.
C16_ChargeUnknownId ==
    [][(ChargeStep /\ ret'.args.subscription_id \notin DOMAIN subscriptions)
          => (ret'.status = "NotFound" /\ UNCHANGED store)]_vars

\* C17, across a step: a usage charge of k > 0 on an Active, usage-enabled
\* subscription whose balance B covers it succeeds, leaves balance B - k,
\* status InsufficientBalance exactly when B - k = 0 (Active otherwise), and
\* last_payment_timestamp and interval_seconds as they were.
C17_DebitStep ==
    LET id == ret'.args.subscription_id
        k == ret'.args.usage_amount
    IN  (/\ ret'.op = "charge_usage"
         /\ id \in DOMAIN subscriptions
         /\ subscriptions[id].status = "Active"
         /\ subscriptions[id].usage_enabled
         /\ k > 0
         /\ subscriptions[id].prepaid_balance >= k)
           => LET old == subscriptions[id]
                  new == subscriptions'[id]
              IN  /\ ret'.status = "Ok"
                  /\ new.prepaid_balance = old.prepaid_balance - k
                  /\ (new.status = "InsufficientBalance") <=> (old.prepaid_balance - k = 0)
                  /\ new.status \in {"Active", "InsufficientBalance"}
                  /\ new.last_payment_timestamp = old.last_payment_timestamp
                  /\ new.interval_seconds = old.interval_seconds

\* C17, in one state: no stored balance is negative.
C17_BalanceNonNegative ==
    \A id \in DOMAIN subscriptions : subscriptions[id].prepaid_balance >= 0

\* C17. Usage debit: a usage charge of k > 0 on an Active, usage-enabled
\* subscription with prepaid_balance B >= k sets the balance to B - k, sets
\* status InsufficientBalance exactly when B - k = 0, and never changes
\* last_payment_timestamp or interval_seconds; consequently prepaid_balance
\* >= 0 in every reachable state.
C17_UsageDebit == [][C17_DebitStep]_vars /\ [] C17_BalanceNonNegative

\* A balance of 3 has been drained by usage debits, the last one of 1: the
\* balance is 0, the status InsufficientBalance, the billing schedule intact.
C17_Witness ==
    /\ ret.op = "charge_usage" /\ ret.status = "Ok"
    /\ ret.args.usage_amount = 1
    /\ created[1].subscription.prepaid_balance = 3
    /\ created[1].subscription.status = "Active"
    /\ subscriptions[0].prepaid_balance = 0
    /\ subscriptions[0].status = "InsufficientBalance"
    /\ subscriptions[0].last_payment_timestamp = created[1].subscription.last_payment_timestamp

\* C18, across a step: an invocation that ends in an error or an abort
\* leaves the counter, every record and every index as they were.
C18_FailedStep ==
    (ret'.status # "Ok" /\ now' = now)
       => UNCHANGED <<nextId, subscriptions, subscriberIndex>>

\* C18. All-or-nothing failure: any operation that fails (returns an error
\* or aborts) leaves NextId, every Subscription record and every
\* SubscriberIndex exactly as before; a failed create_subscription never
\* advances the counter, writes a record or appends to an index.
C18_AllOrNothing == [][C18_FailedStep]_vars

\* A create_subscription has been refused after two had succeeded: the
\* counter still reads 2, and two records and two index entries are stored.
C18_Witness ==
    /\ ret.op = "create_subscription" /\ ret.status = "Panic"
    /\ Len(created) = 2
    /\ nextId = {2}
    /\ DOMAIN subscriptions = {0, 1}
    /\ Len(IdsOf("A")) + Len(IdsOf("B")) = 2

\* The step is an invocation of one of the two read queries.
QueryStep ==
    ret'.op \in {"get_subscription", "get_subscriptions_by_subscriber"} /\ now' = now

\* What the query recorded in `r` returns when made in the store
\* (idx, subs): status and value.
QueryAgain(r, idx, subs) ==
    IF r.op = "get_subscription"
    THEN get_subscription(subs, r.args.subscription_id)
    ELSE get_subscriptions_by_subscriber(idx, subs, r.args.subscriber,
                                         r.args.start, r.args.limit)

\* C19, across a step: a query leaves Token, Admin, the counter, every record
\* and every index (the set of index keys included) as they were, and the
\* same query repeated in the state it leaves returns what it returned.
C19_QueryFrame ==
    QueryStep
       => /\ UNCHANGED <<token, admin, nextId, subscriptions, subscriberIndex>>
          /\ DOMAIN subscriberIndex' = DOMAIN subscriberIndex
          /\ QueryAgain(ret', subscriberIndex', subscriptions')
                = [status |-> ret'.status, value |-> ret'.value]

\* C19. get_subscription and get_subscriptions_by_subscriber have no
\* persisted effect: NextId, Token, Admin, every record and every index are
\* unchanged (a query for an unknown subscriber does not create an empty
\* index entry), and repeating the same query in the same state returns the
\* same result.
C19_QueriesAreReadOnly == [][C19_QueryFrame]_vars

\* The page of a stranger has been queried in a store that holds
\* subscriptions of A and B: it is empty and the stranger has no index key.
C19_Witness ==
    /\ ret.op = "get_subscriptions_by_subscriber" /\ ret.status = "Ok"
    /\ ret.args.subscriber = "Z"
    /\ ret.value = << >>
    /\ DOMAIN subscriberIndex = {"A", "B"}
    /\ token # {} /\ admin # {}

\* C20. Pagination bounds never wrap: when start + limit exceeds the word
\* maximum (limit > 0) the end index is computed with a saturating addition,
\* so the page is the entries at positions [min(start, total), total), the
\* same as with unbounded arithmetic; never a wrapped smaller window, an
\* entry before start, or an abort.
C20_BoundsNeverWrap ==
    (/\ ret.op = Page
     /\ ret.args.limit > 0
     /\ ret.args.start + ret.args.limit > U32Max)
       => LET total == Len(IdsOf(ret.args.subscriber))
          IN  /\ ret.status = "Ok"
              /\ ret.value = WindowOf(ret.args.subscriber,
                                      Min(ret.args.start, total), total)
              /\ \A k \in 1..Len(ret.value) :
                     ret.value[k].id = IdsOf(ret.args.subscriber)[ret.args.start + k]

\* start = 1 and limit = the word maximum over an index of three ids: the
\* sum overflows the word and the page is the last two entries.
C20_Witness ==
    /\ ret.op = Page /\ ret.status = "Ok"
    /\ ret.args.start = 1 /\ ret.args.limit = U32Max
    /\ Len(IdsOf(ret.args.subscriber)) = 3
    /\ EntryIds(ret.value) = <<1, 2>>

\* The step is an invocation of create_subscription.
CreateStep == ret'.op = "create_subscription" /\ now' = now

\* C21, across a step: a create_subscription made while the counter holds
\* the largest word aborts and persists nothing, and no creation changes a
\* record that is already stored.
C21_OverflowStep ==
    CreateStep
       => /\ (nextId = {U32Max})
                => (ret'.status = "Panic"
                    /\ UNCHANGED <<nextId, subscriptions, subscriberIndex>>)
          /\ \A id \in DOMAIN subscriptions :
                 id \in DOMAIN subscriptions' /\ subscriptions'[id] = subscriptions[id]

\* C21, in one state: no id has been issued twice.
C21_NoIdReissued ==
    \A j, k \in 1..Len(created) : (created[j].id = created[k].id) => (j = k)

Listings(id) ==
    { p \in UNION { { <<s, k>> : k \in 1..Len(subscriberIndex[s]) } :
                    s \in DOMAIN subscriberIndex } :
        subscriberIndex[p[1]][p[2]] = id }

C23_InitEnabled ==
    \A t \in {"T1", "T2"} : ENABLED Initialize(t, IF t = "T1" THEN "G1" ELSE "G2")

\* C23, across a step: an init succeeds, stores the given token and admin
\* over whatever was stored, and leaves the counter, every record and every
\* index as they were.
C23_InitStep ==
    (ret'.op = "init" /\ now' = now)
       => /\ ret'.status = "Ok"
          /\ token' = {ret'.args.token}
          /\ admin' = {ret'.args.admin}
          /\ UNCHANGED <<nextId, subscriptions, subscriberIndex>>

\* C23. init(token, admin) succeeds in every state, including after a
\* previous init and after subscriptions exist, with no authorization check
\* and no already-initialized guard; each call overwrites Token and Admin
\* with the given values and leaves NextId, every record and every index
\* unchanged.
C23_InitOverwrites == [] C23_InitEnabled /\ [][C23_InitStep]_vars

\* init has just stored T2 and G2 in a store that holds two subscriptions:
\* the counter still reads 2.
C23_Witness ==
    /\ ret.op = "init" /\ ret.status = "Ok"
    /\ token = {"T2"} /\ admin = {"G2"}
    /\ nextId = {2}
    /\ DOMAIN subscriptions = {0, 1}

=============================================================================
